---- MODULE Spec2Model ----
(***************************************************************************)
(* Model of utils.py: the sampler get_distributions (two normal            *)
(* populations drawn from the process-wide numpy generator), the metric    *)
(* computation (roc_auc_score, average_precision_score, roc_curve,         *)
(* precision_recall_curve), the seed sweep get_curves with its running     *)
(* min/max record, and the spread computation of plot_curves.              *)
(*                                                                         *)
(* Reals are modelled exactly: a rational is a pair <<num, den>>, den > 0. *)
(* Class weights are multiples of 1/4, which binary floating point holds   *)
(* exactly, so n_objects * weight is exact in the code as in the model.    *)
(* The numpy generator is modelled as a small deterministic generator with *)
(* the structure of the legacy RandomState: a position set by seed(),      *)
(* advanced by each fresh draw, and a cached second gaussian.              *)
(***************************************************************************)
EXTENDS Integers, Naturals, Sequences, FiniteSets, TLC

VARIABLES rng, n_objects, class_weight, loc, seeds, pc, idx, frame, err, plot,
          op, sseed, disturbed, firstRet, lastRet,
          wpc, wseed, wld, wrd

vars == <<rng, n_objects, class_weight, loc, seeds, pc, idx, frame, err, plot,
          op, sseed, disturbed, firstRet, lastRet,
          wpc, wseed, wld, wrd>>

sweepVars == <<n_objects, class_weight, loc, seeds, pc, idx, frame, err, plot>>
callVars == <<op, sseed, disturbed, firstRet, lastRet>>
parVars == <<wpc, wseed, wld, wrd>>

\* ------------------------------------------------------------------ bounds
MaxObjects == 4
MaxSeed == 2
MaxPanel == 3
RngMod == 8

\* Python's None, and a local name that has not been bound yet.
None == <<>>
Unbound == <<>>

\* ------------------------------------------------------------- arithmetic
\* int(x) of a quotient a / b, b > 0: truncation toward zero.
TruncDiv(a, b) == IF a >= 0 THEN a \div b ELSE -((-a) \div b)

RLess(a, b) == a[1] * b[2] < b[1] * a[2]
RLeq(a, b) == a[1] * b[2] <= b[1] * a[2]
RZero(a) == a[1] = 0

SetMax(S) == CHOOSE m \in S : \A x \in S : x <= m

RECURSIVE SortDesc(_)
SortDesc(S) == IF S = {} THEN <<>>
               ELSE LET m == SetMax(S) IN <<m>> \o SortDesc(S \ {m})

RECURSIVE Fact(_)
Fact(n) == IF n <= 1 THEN 1 ELSE n * Fact(n - 1)

RECURSIVE Reverse(_)
Reverse(s) == IF s = <<>> THEN <<>> ELSE Reverse(Tail(s)) \o <<Head(s)>>

RECURSIVE SumSeq(_)
SumSeq(s) == IF s = <<>> THEN 0 ELSE Head(s) + SumSeq(Tail(s))

\* ---------------------------------------------------- the numpy generator
\* np.random.seed(seed): the whole state is a function of the seed; the
\* cached gaussian is dropped.
Seed(seed) == [pos |-> (3 * seed + 1) % RngMod, has_gauss |-> FALSE, gauss |-> 0]

StepPos(p) == (5 * p + 3) % RngMod
GaussA(p) == (p % 3) - 1
GaussB(p) == ((p \div 3) % 3) - 1

\* One standard-normal draw: the cached value if there is one, else a fresh
\* pair, of which one is returned and the other cached.
Gauss(r) ==
    IF r.has_gauss
    THEN [val |-> r.gauss, rng |-> [r EXCEPT !.has_gauss = FALSE, !.gauss = 0]]
    ELSE LET p == StepPos(r.pos)
         IN [val |-> GaussB(p),
             rng |-> [pos |-> p, has_gauss |-> TRUE, gauss |-> GaussA(p)]]

\* The size values drawn one after the other.
RECURSIVE Draws(_, _)
Draws(r, size) ==
    IF size = 0 THEN [vals |-> <<>>, rng |-> r]
    ELSE LET g == Gauss(r)
             rest == Draws(g.rng, size - 1)
         IN [vals |-> <<g.val>> \o rest.vals, rng |-> rest.rng]

\* np.random.normal(loc, scale, size): raises ValueError on a negative size.
Normal(r, mean, scale, size) ==
    IF size < 0 THEN [raised |-> TRUE, vals |-> <<>>, rng |-> r]
    ELSE LET d == Draws(r, size)
         IN [raised |-> FALSE,
             vals |-> [i \in 1..size |-> mean + scale * d.vals[i]],
             rng |-> d.rng]

\* ------------------------------------------------------- get_distributions
\* positive_class_weight is w4 / 4.
NegSize(n, w4) == TruncDiv(n * (4 - w4), 4)
PosSize(n, w4) == TruncDiv(n * w4, 4)

\* The sampler without line 35: it draws from wherever the generator stands.
get_distributions_unseeded(r, n, w4, seed, mean) ==
    LET l == Normal(r, 0, 5, NegSize(n, w4))
        p == Normal(l.rng, mean, 5, PosSize(n, w4))
    IN IF l.raised THEN [raised |-> TRUE, ld |-> <<>>, rd |-> <<>>, rng |-> l.rng]
       ELSE IF p.raised THEN [raised |-> TRUE, ld |-> <<>>, rd |-> <<>>, rng |-> p.rng]
       ELSE [raised |-> FALSE, ld |-> l.vals, rd |-> p.vals, rng |-> p.rng]

get_distributions(r, n, w4, seed, mean) ==
    LET r0 == Seed(seed)
        l == Normal(r0, 0, 5, NegSize(n, w4))
        p == Normal(l.rng, mean, 5, PosSize(n, w4))
    IN IF l.raised THEN [raised |-> TRUE, ld |-> <<>>, rd |-> <<>>, rng |-> l.rng]
       ELSE IF p.raised THEN [raised |-> TRUE, ld |-> <<>>, rd |-> <<>>, rng |-> p.rng]
       ELSE [raised |-> FALSE, ld |-> l.vals, rd |-> p.vals, rng |-> p.rng]

\* ----------------------------------------------------------------- metrics
Thresholds(ld, rd) ==
    SortDesc({ld[i] : i \in DOMAIN ld} \cup {rd[i] : i \in DOMAIN rd})
CountGeq(s, t) == Cardinality({i \in DOMAIN s : s[i] >= t})

\* Only one label value present (or no labels at all).
Degenerate(ld, rd) == Len(ld) = 0 \/ Len(rd) = 0

\* A metric that answers 1/2 for a one-label sample instead of raising.
roc_auc_score_sentinel(ld, rd) ==
    LET wins == Cardinality({p \in (DOMAIN ld) \X (DOMAIN rd) : rd[p[2]] > ld[p[1]]})
        ties == Cardinality({p \in (DOMAIN ld) \X (DOMAIN rd) : rd[p[2]] = ld[p[1]]})
    IN IF Degenerate(ld, rd) THEN [raised |-> FALSE, val |-> <<1, 2>>]
       ELSE [raised |-> FALSE, val |-> <<2 * wins + ties, 2 * Len(ld) * Len(rd)>>]

\* roc_auc_score: probability that a positive outranks a negative, ties 1/2.
roc_auc_score(ld, rd) ==
    LET wins == Cardinality({p \in (DOMAIN ld) \X (DOMAIN rd) : rd[p[2]] > ld[p[1]]})
        ties == Cardinality({p \in (DOMAIN ld) \X (DOMAIN rd) : rd[p[2]] = ld[p[1]]})
    IN IF Degenerate(ld, rd) THEN [raised |-> TRUE, val |-> None]
       ELSE [raised |-> FALSE, val |-> <<2 * wins + ties, 2 * Len(ld) * Len(rd)>>]

\* average_precision_score: sum over thresholds of (R_k - R_{k-1}) * P_k.
average_precision_score(ld, rd) ==
    LET th == Thresholds(ld, rd)
        F == Fact(Len(ld) + Len(rd))
        tp(k) == IF k = 0 THEN 0 ELSE CountGeq(rd, th[k])
        fp(k) == IF k = 0 THEN 0 ELSE CountGeq(ld, th[k])
        term(k) == (tp(k) - tp(k - 1)) * tp(k) * (F \div (tp(k) + fp(k)))
    IN <<SumSeq([k \in 1..Len(th) |-> term(k)]), Len(rd) * F>>

\* roc_curve: (fpr, tpr) at each distinct threshold, after the (0, 0) start.
roc_curve(ld, rd) ==
    LET th == Thresholds(ld, rd)
    IN [fpr |-> <<<<0, Len(ld)>>>> \o
                [k \in 1..Len(th) |-> <<CountGeq(ld, th[k]), Len(ld)>>],
        tpr |-> <<<<0, Len(rd)>>>> \o
                [k \in 1..Len(th) |-> <<CountGeq(rd, th[k]), Len(rd)>>]]

\* precision_recall_curve: recall decreasing, closed by (precision 1, recall 0).
precision_recall_curve(ld, rd) ==
    LET th == Thresholds(ld, rd)
        tp(k) == CountGeq(rd, th[k])
        fp(k) == CountGeq(ld, th[k])
    IN [precision |-> Reverse([k \in 1..Len(th) |-> <<tp(k), tp(k) + fp(k)>>])
                      \o <<<<1, 1>>>>,
        recall |-> Reverse([k \in 1..Len(th) |-> <<tp(k), Len(rd)>>])
                   \o <<<<0, Len(rd)>>>>]

\* -------------------------------------------------------------- get_curves
\* The 0.0005 that out['ROC']['max'] and out['PR']['max'] start from.
Floor == <<5, 10000>>

InitFrame ==
    [out |-> [ROC |-> [min |-> None, max |-> Floor],
              PR |-> [min |-> None, max |-> Floor]],
     min_fpr |-> Unbound, min_tpr |-> Unbound,
     min_precision |-> Unbound, min_recall |-> Unbound,
     max_fpr |-> Unbound, max_tpr |-> Unbound,
     max_precision |-> Unbound, max_recall |-> Unbound]

\* What one seed's evaluation yields (lines 80-87), for a sample with both
\* labels present.
Evaluate(ld, rd) ==
    LET rc == roc_curve(ld, rd)
        prc == precision_recall_curve(ld, rd)
    IN [auc_roc |-> roc_auc_score(ld, rd).val,
        auc_pr |-> average_precision_score(ld, rd),
        fpr |-> rc.fpr, tpr |-> rc.tpr,
        precision |-> prc.precision, recall |-> prc.recall]

\* The min-side update with <= in place of <.
UpdateMin_leq(f, run) ==
    IF f.out.ROC.min = None \/ RLeq(run.auc_roc, f.out.ROC.min)
    THEN [f EXCEPT !.min_fpr = run.fpr, !.min_tpr = run.tpr,
                   !.min_precision = run.precision, !.min_recall = run.recall,
                   !.out.ROC.min = run.auc_roc, !.out.PR.min = run.auc_pr]
    ELSE f

\* if out['ROC']['min'] is None or auc_roc < out['ROC']['min']: ...
UpdateMin(f, run) ==
    IF f.out.ROC.min = None \/ RLess(run.auc_roc, f.out.ROC.min)
    THEN [f EXCEPT !.min_fpr = run.fpr, !.min_tpr = run.tpr,
                   !.min_precision = run.precision, !.min_recall = run.recall,
                   !.out.ROC.min = run.auc_roc, !.out.PR.min = run.auc_pr]
    ELSE f

\* The max-side update with the comparison turned round.
UpdateMax_flipped(f, run) ==
    IF RLess(run.auc_roc, f.out.ROC.max)
    THEN [f EXCEPT !.max_fpr = run.fpr, !.max_tpr = run.tpr,
                   !.max_precision = run.precision, !.max_recall = run.recall,
                   !.out.ROC.max = run.auc_roc, !.out.PR.max = run.auc_pr]
    ELSE f

\* The max-side update with AUC-PR maximized on its own.
UpdateMax_ownpr(f, run) ==
    LET g == IF RLess(f.out.ROC.max, run.auc_roc)
             THEN [f EXCEPT !.max_fpr = run.fpr, !.max_tpr = run.tpr,
                            !.max_precision = run.precision,
                            !.max_recall = run.recall,
                            !.out.ROC.max = run.auc_roc]
             ELSE f
    IN IF RLess(g.out.PR.max, run.auc_pr)
       THEN [g EXCEPT !.out.PR.max = run.auc_pr]
       ELSE g

\* if auc_roc > out['ROC']['max']: ...
UpdateMax(f, run) ==
    IF RLess(f.out.ROC.max, run.auc_roc)
    THEN [f EXCEPT !.max_fpr = run.fpr, !.max_tpr = run.tpr,
                   !.max_precision = run.precision, !.max_recall = run.recall,
                   !.out.ROC.max = run.auc_roc, !.out.PR.max = run.auc_pr]
    ELSE f

\* The names the return statement reads.
AllBound(f) ==
    /\ f.min_fpr # Unbound /\ f.max_fpr # Unbound
    /\ f.min_tpr # Unbound /\ f.max_tpr # Unbound
    /\ f.min_recall # Unbound /\ f.max_recall # Unbound
    /\ f.min_precision # Unbound /\ f.max_precision # Unbound

\* plot_curves: the legend formats the four scalars, the titles compute
\* out[metric]['max'] * 100 / out[metric]['min'] - 100 for ROC, then PR.
SpreadOutcome(o) ==
    IF o.ROC.min = None \/ o.PR.min = None THEN "TypeError"
    ELSE IF RZero(o.ROC.min) \/ RZero(o.PR.min) THEN "divzero"
    ELSE "ok"

\* ------------------------------------------------------ states and inputs
RngStates ==
    {[pos |-> p, has_gauss |-> FALSE, gauss |-> 0] : p \in 0..(RngMod - 1)}
    \cup {[pos |-> p, has_gauss |-> TRUE, gauss |-> GaussA(p)] : p \in 0..(RngMod - 1)}

SeedSet == 0..MaxSeed
SizeSet == -1..MaxObjects
WeightSet == -1..5
LocSet == {-20, 0, 10}
Panels == UNION {[1..k -> SeedSet] : k \in 1..MaxPanel}

IdleCall ==
    /\ op = "none" /\ sseed = 0 /\ disturbed = FALSE
    /\ firstRet = None /\ lastRet = None
IdlePar ==
    /\ wpc = <<>> /\ wseed = <<>> /\ wld = <<>> /\ wrd = <<>>
IdleSweep ==
    /\ seeds = <<>>
    /\ pc = "idle" /\ idx = 0 /\ frame = InitFrame /\ err = None /\ plot = "none"

\* ---------------------------------------------------------- the seed sweep
\* A call get_curves(n_objects, class_weight, loc) entering its loop.
Init ==
    /\ rng \in RngStates
    /\ n_objects \in SizeSet
    /\ class_weight \in WeightSet
    /\ loc \in LocSet
    /\ seeds \in Panels
    /\ pc = "loop" /\ idx = 0 /\ frame = InitFrame /\ err = None /\ plot = "none"
    /\ IdleCall /\ IdlePar

\* One pass of the loop body, lines 76-98.
Iterate ==
    /\ pc = "loop" /\ idx < Len(seeds)
    /\ LET d == get_distributions(rng, n_objects, class_weight, seeds[idx + 1], loc)
       IN /\ rng' = d.rng
          /\ IF d.raised \/ roc_auc_score(d.ld, d.rd).raised
             THEN /\ pc' = "raised" /\ err' = "ValueError"
                  /\ UNCHANGED <<idx, frame>>
             ELSE /\ frame' = UpdateMax(UpdateMin(frame, Evaluate(d.ld, d.rd)),
                                        Evaluate(d.ld, d.rd))
                  /\ idx' = idx + 1
                  /\ UNCHANGED <<pc, err>>
    /\ UNCHANGED <<n_objects, class_weight, loc, seeds, plot>>
    /\ UNCHANGED callVars /\ UNCHANGED parVars

\* The return statement, lines 100-104.
Return ==
    /\ pc = "loop" /\ idx = Len(seeds)
    /\ IF AllBound(frame)
       THEN pc' = "returned" /\ err' = err
       ELSE pc' = "raised" /\ err' = "UnboundLocalError"
    /\ UNCHANGED <<rng, n_objects, class_weight, loc, seeds, idx, frame, plot>>
    /\ UNCHANGED callVars /\ UNCHANGED parVars

\* plot_curves(*get_curves(...)).
Plot ==
    /\ pc = "returned" /\ plot = "none"
    /\ plot' = SpreadOutcome(frame.out)
    /\ UNCHANGED <<rng, n_objects, class_weight, loc, seeds, pc, idx, frame, err>>
    /\ UNCHANGED callVars /\ UNCHANGED parVars

Next == Iterate \/ Return \/ Plot

Spec == Init /\ [][Next]_vars

\* ------------------------------------------------- direct sampler calls
\* What a caller of get_distributions gets: the two arrays, or the error.
Ret(d) == IF d.raised THEN <<"ValueError">> ELSE <<"ok", d.ld, d.rd>>

\* A process that calls get_distributions(n_objects, class_weight / 4, sseed,
\* loc) any number of times, among other sampler calls and among draws that
\* other code makes from the same process-wide generator.
InitCall ==
    /\ rng \in RngStates
    /\ n_objects \in SizeSet
    /\ class_weight \in WeightSet
    /\ loc \in LocSet
    /\ sseed \in SeedSet
    /\ op = "none" /\ disturbed = FALSE /\ firstRet = None /\ lastRet = None
    /\ IdleSweep /\ IdlePar

Sample ==
    /\ LET d == get_distributions(rng, n_objects, class_weight, sseed, loc)
       IN /\ rng' = d.rng
          /\ lastRet' = Ret(d)
          /\ firstRet' = IF firstRet = None THEN Ret(d) ELSE firstRet
    /\ op' = "sample"
    /\ UNCHANGED <<sseed, disturbed>>
    /\ UNCHANGED sweepVars /\ UNCHANGED parVars

\* A sampler call with some other spec; its result is not kept.
OtherSample ==
    /\ \E n \in SizeSet, w4 \in WeightSet, s \in SeedSet, m \in LocSet :
          rng' = get_distributions(rng, n, w4, s, m).rng
    /\ op' = "other"
    /\ disturbed' = (disturbed \/ firstRet # None)
    /\ UNCHANGED <<sseed, firstRet, lastRet>>
    /\ UNCHANGED sweepVars /\ UNCHANGED parVars

\* Code outside the sampler draws one value from np.random.
OutsideDraw ==
    /\ rng' = Gauss(rng).rng
    /\ op' = "draw"
    /\ disturbed' = (disturbed \/ firstRet # None)
    /\ UNCHANGED <<sseed, firstRet, lastRet>>
    /\ UNCHANGED sweepVars /\ UNCHANGED parVars

NextCall == Sample \/ OtherSample \/ OutsideDraw

SpecCall == InitCall /\ [][NextCall]_vars

\* ------------------------------------------- per-seed sampling, in parallel
\* Two workers each run the three statements of get_distributions for their
\* own seed, on the one generator of the process.
Workers == {1, 2}

InitPar ==
    /\ rng \in RngStates
    /\ n_objects \in SizeSet
    /\ class_weight \in WeightSet
    /\ loc \in LocSet
    /\ wseed \in [Workers -> SeedSet]
    /\ wpc = [w \in Workers |-> "seed"]
    /\ wld = [w \in Workers |-> <<>>]
    /\ wrd = [w \in Workers |-> <<>>]
    /\ IdleSweep /\ IdleCall

\* np.random.seed(seed)
WSeed(w) ==
    /\ wpc[w] = "seed"
    /\ rng' = Seed(wseed[w])
    /\ wpc' = [wpc EXCEPT ![w] = "neg"]
    /\ UNCHANGED <<wseed, wld, wrd>>
    /\ UNCHANGED sweepVars /\ UNCHANGED callVars

\* ld = np.random.normal(loc=0.0, scale=5.0, size=...)
WNeg(w) ==
    /\ wpc[w] = "neg"
    /\ LET l == Normal(rng, 0, 5, NegSize(n_objects, class_weight))
       IN /\ rng' = l.rng
          /\ wld' = [wld EXCEPT ![w] = l.vals]
          /\ wpc' = [wpc EXCEPT ![w] = IF l.raised THEN "raised" ELSE "pos"]
    /\ UNCHANGED <<wseed, wrd>>
    /\ UNCHANGED sweepVars /\ UNCHANGED callVars

\* rd = np.random.normal(loc=loc, scale=5.0, size=...)
WPos(w) ==
    /\ wpc[w] = "pos"
    /\ LET p == Normal(rng, loc, 5, PosSize(n_objects, class_weight))
       IN /\ rng' = p.rng
          /\ wrd' = [wrd EXCEPT ![w] = p.vals]
          /\ wpc' = [wpc EXCEPT ![w] = IF p.raised THEN "raised" ELSE "done"]
    /\ UNCHANGED <<wseed, wld>>
    /\ UNCHANGED sweepVars /\ UNCHANGED callVars

NextPar == \E w \in Workers : WSeed(w) \/ WNeg(w) \/ WPos(w)

SpecPar == InitPar /\ [][NextPar]_vars

\* ================================================================= claims
\* The evaluation of one seed of the panel, recomputed on its own from a
\* freshly seeded generator.
SeedRun(s) ==
    LET d == get_distributions(Seed(0), n_objects, class_weight, s, loc)
    IN Evaluate(d.ld, d.rd)
PanelRun(k) == SeedRun(seeds[k])

\* The first position among the first n of the panel whose aucRoc is least.
FirstMin(n) ==
    CHOOSE k \in 1..n :
        /\ \A j \in 1..n : RLeq(PanelRun(k).auc_roc, PanelRun(j).auc_roc)
        /\ \A j \in 1..(k - 1) : RLess(PanelRun(k).auc_roc, PanelRun(j).auc_roc)

MinSideFrom(f, run) ==
    /\ f.out.ROC.min = run.auc_roc /\ f.out.PR.min = run.auc_pr
    /\ f.min_fpr = run.fpr /\ f.min_tpr = run.tpr
    /\ f.min_precision = run.precision /\ f.min_recall = run.recall
MaxSideFrom(f, run) ==
    /\ f.out.ROC.max = run.auc_roc /\ f.out.PR.max = run.auc_pr
    /\ f.max_fpr = run.fpr /\ f.max_tpr = run.tpr
    /\ f.max_precision = run.precision /\ f.max_recall = run.recall
MinSideUnset(f) ==
    /\ f.out.ROC.min = None /\ f.out.PR.min = None
    /\ f.min_fpr = Unbound /\ f.min_tpr = Unbound
    /\ f.min_precision = Unbound /\ f.min_recall = Unbound
MaxSideUnset(f) ==
    /\ f.out.ROC.max = Floor /\ f.out.PR.max = Floor
    /\ f.max_fpr = Unbound /\ f.max_tpr = Unbound
    /\ f.max_precision = Unbound /\ f.max_recall = Unbound

\* C1: when get_curves returns, ROC.min is the least aucRoc of the panel and
\* the whole min-side record (PR.min and the four min curves) is that of the
\* first seed in panel order that achieves it.
C1_MinIsPanelMinimum ==
    pc = "returned" =>
        /\ \A k \in 1..Len(seeds) : RLeq(frame.out.ROC.min, PanelRun(k).auc_roc)
        /\ MinSideFrom(frame, PanelRun(FirstMin(Len(seeds))))

\* A returned sweep in which a later seed ties the minimum with another record.
C1_Witness ==
    /\ pc = "returned"
    /\ \E j, k \in 1..Len(seeds) :
          /\ j < k
          /\ PanelRun(j).auc_roc = frame.out.ROC.min
          /\ PanelRun(k).auc_roc = frame.out.ROC.min
          /\ PanelRun(j) # PanelRun(k)
          /\ MinSideFrom(frame, PanelRun(j))
    /\ \E k \in 1..Len(seeds) : RLess(frame.out.ROC.min, PanelRun(k).auc_roc)

\* C2: after any number of processed seeds each side of the record is whole:
\* the min side is either entirely unset (no seed processed) or entirely the
\* record of one processed seed, and the max side is either entirely initial
\* or entirely the record of one processed seed; PR.min and PR.max are never
\* chosen by a comparison of their own.
C2_SidesTakenWhole ==
    pc \in {"loop", "returned"} =>
        /\ \/ idx = 0 /\ MinSideUnset(frame)
           \/ \E k \in 1..idx : MinSideFrom(frame, PanelRun(k))
        /\ \/ MaxSideUnset(frame)
           \/ \E k \in 1..idx : MaxSideFrom(frame, PanelRun(k))

\* Both sides adopted, from different seeds, and the seed of the larger
\* aucRoc is not the seed of the larger aucPr.
C2_Witness ==
    /\ pc = "loop" /\ idx >= 2
    /\ \E j, k \in 1..idx :
          /\ MinSideFrom(frame, PanelRun(j)) /\ MaxSideFrom(frame, PanelRun(k))
          /\ RLess(PanelRun(j).auc_roc, PanelRun(k).auc_roc)
          /\ RLess(PanelRun(k).auc_pr, PanelRun(j).auc_pr)

\* C3: after every processed seed, ROC.min <= ROC.max.
C3_MinLeqMax ==
    (pc \in {"loop", "returned"} /\ idx >= 1) =>
        RLeq(frame.out.ROC.min, frame.out.ROC.max)

\* Seeds processed, none above the floor: ROC.max is still 0.0005.
C3_Witness ==
    /\ pc = "loop" /\ idx >= 2
    /\ frame.out.ROC.max = Floor
    /\ frame.out.ROC.min # None /\ RLess(frame.out.ROC.min, Floor)

\* C4: a sweep in which no run's aucRoc exceeds the 0.0005 floor still
\* returns, with the max curve fields unset and ROC.max, PR.max at 0.0005.
C4_ReturnsWithUnsetCurves ==
    (pc # "loop" /\ idx = Len(seeds) /\ frame.out.ROC.max = Floor) =>
        pc = "returned" /\ MaxSideUnset(frame)

\* C5: when the sample has only one label value, the sweep aborts at the first
\* such seed with the metric's failure: no seed is passed over, nothing is
\* recorded into the min/max record, and nothing is returned.
OneLabel ==
    /\ NegSize(n_objects, class_weight) >= 0
    /\ PosSize(n_objects, class_weight) >= 0
    /\ NegSize(n_objects, class_weight) = 0 \/ PosSize(n_objects, class_weight) = 0

C6_InvalidParameterRejected ==
    (lastRet # None /\ (class_weight < 0 \/ class_weight > 4 \/ n_objects <= 0)) =>
        lastRet = <<"ValueError">>

\* C7: a sampler call returns what the first call with the same spec
\* returned, whatever sampler calls and draws were made in between.
C7_ReproducibleBySeed ==
    firstRet # None => lastRet = firstRet

\* A repeated call, after other calls or draws, that returned a sample.
C7_Witness ==
    /\ op = "sample" /\ disturbed
    /\ firstRet # None /\ lastRet = firstRet
    /\ lastRet[1] = "ok" /\ Len(lastRet[2]) >= 1 /\ Len(lastRet[3]) >= 2

\* What code outside the sampler would draw next from the generator.
Upcoming(r) == Draws(r, 2).vals

\* C8: a sampler call leaves unchanged what outside code draws from the
\* process-wide generator.
C8_GlobalStateUntouched ==
    [][op' = "sample" => Upcoming(rng') = Upcoming(rng)]_vars

\* C9: under any interleaving of the workers' steps, each worker that
\* finishes holds the sample of the sequential sweep for its seed.
SequentialSample(s) ==
    LET d == get_distributions(Seed(0), n_objects, class_weight, s, loc)
    IN <<d.ld, d.rd>>

C9_ParallelEqualsSequential ==
    \A w \in Workers :
        (wpc # <<>> /\ wpc[w] = "done") =>
            <<wld[w], wrd[w]>> = SequentialSample(wseed[w])

\* C10: plot_curves never divides by zero or by an unset value when it
\* computes the percentage spread of a returned result.
C10_SpreadNeverDividesByZero ==
    plot \in {"none", "ok"}

====
